---- MODULE Spec2Model ----
(***************************************************************************)
(* Study / grading engine of the flashcards application:                   *)
(*   backend/app/services/study.py   (sessions, SM-2, answer evaluation)   *)
(*   backend/app/api/routes/study.py (the HTTP handlers around it)         *)
(*                                                                         *)
(* Conventions                                                             *)
(*   - easiness is carried in exact hundredths (2.5 is 250, 1.3 is 130);   *)
(*     every easiness adjustment of _apply_sm2 is a whole number of        *)
(*     hundredths, so the arithmetic is exact in this unit.                *)
(*   - an Optional[...] value is a set with at most one element:           *)
(*     None is {} and a present value x is {x}.                            *)
(*   - text is a sequence of one-character strings.                        *)
(*   - time is counted in ticks, TicksPerDay ticks to a calendar day.      *)
(***************************************************************************)
EXTENDS Integers, Sequences, FiniteSets, TLC

\* ------------------------------------------------------------------ bounds
MaxReps == 3
MaxInterval == 7
MaxEasiness == 280
MaxDueInterval == 70
TicksPerDay == 2
MaxSessions == 2
MaxResponses == 2
MaxNow == 6
MaxStreak == 3
MaxFlags == 3
MaxWriters == 2

\* --------------------------------------------------------------- constants
MinEasiness == 130
DefaultEasiness == 250

None == {}
Some(x) == {x}

Max(a, b) == IF a >= b THEN a ELSE b
Min(a, b) == IF a <= b THEN a ELSE b

VARIABLES
    now,          \* the clock, in ticks
    sessions,     \* table QuizSession: sessions[id] is the row with that id
    responses,    \* table QuizResponse, in insertion order
    srs_reviews,  \* table SRSReview, a set of rows
    progress,     \* table UserDeckProgress, a set of rows
    users,        \* users[u]: the streak fields of user u
    last,         \* the last request and the response it got
    sm2_review,   \* the SRSReview object handed to _apply_sm2
    sm2_before,   \* that object as it was when the last call started
    sm2_quality,  \* the quality argument of the last call
    sm2_outcome,  \* how the last call ended
    eval_card,    \* the card handed to _check_answer_correctness
    eval_answer,  \* the user_answer handed to it
    eval_outcome, \* how that call ended
    streak_stats, \* what the last get_streak_stats returned
    due_list,     \* what the last due_reviews returned
    flagged_cards, \* table FlaggedCard, a set of rows
    flag_seq,     \* the last id the table's sequence gave out
    flag_result,  \* the record the last flag_card returned
    txns          \* the record_answer requests in flight, each in its own transaction

db == <<sessions, responses, srs_reviews, progress, users>>
sm2 == <<sm2_review, sm2_before, sm2_quality, sm2_outcome>>
evaluation == <<eval_card, eval_answer, eval_outcome>>
flags == <<flagged_cards, flag_seq, flag_result>>
vars == <<now, sessions, responses, srs_reviews, progress, users, last,
          sm2_review, sm2_before, sm2_quality, sm2_outcome,
          eval_card, eval_answer, eval_outcome, streak_stats, due_list, flags, txns>>

\* ------------------------------------------------------------------- SM-2
\* Python's round(): to the nearest integer, ties to the even one.  x is a
\* non-negative number of hundredths.
RoundHundredths(x) ==
    LET q == x \div 100
        r == x % 100
    IN IF r < 50 THEN q
       ELSE IF r > 50 THEN q + 1
       ELSE IF q % 2 = 0 THEN q ELSE q + 1

\* 0.1 - (5 - quality) * (0.08 + (5 - quality) * 0.02), in hundredths
EasinessDelta(quality) == 10 - (5 - quality) * (8 + (5 - quality) * 2)

\* the adjustment without the floor
NextEasinessUnclamped(easiness, quality) == easiness + EasinessDelta(quality)

NextEasiness(easiness, quality) == Max(MinEasiness, easiness + EasinessDelta(quality))

\* the ladder with a lapse that resets repetitions only
Sm2ScheduleLapseKeepsInterval(review, quality) ==
    IF quality < 3
    THEN [review EXCEPT !.repetitions = 0]
    ELSE IF review.repetitions = 0
    THEN [review EXCEPT !.repetitions = 1, !.interval_days = 1]
    ELSE IF review.repetitions = 1
    THEN [review EXCEPT !.repetitions = 2, !.interval_days = 6]
    ELSE [review EXCEPT
            !.interval_days = Max(1, RoundHundredths(review.interval_days * review.easiness)),
            !.repetitions = review.repetitions + 1]

\* the ladder without the fixed second step
Sm2ScheduleNoSecondStep(review, quality) ==
    IF quality < 3
    THEN [review EXCEPT !.repetitions = 0, !.interval_days = 1]
    ELSE IF review.repetitions = 0
    THEN [review EXCEPT !.repetitions = 1, !.interval_days = 1]
    ELSE [review EXCEPT
            !.interval_days = Max(1, RoundHundredths(review.interval_days * review.easiness)),
            !.repetitions = review.repetitions + 1]

\* repetitions and interval_days after the if/else ladder
Sm2Schedule(review, quality) ==
    IF quality < 3
    THEN [review EXCEPT !.repetitions = 0, !.interval_days = 1]
    ELSE IF review.repetitions = 0
    THEN [review EXCEPT !.repetitions = 1, !.interval_days = 1]
    ELSE IF review.repetitions = 1
    THEN [review EXCEPT !.repetitions = 2, !.interval_days = 6]
    ELSE [review EXCEPT
            !.interval_days = Max(1, RoundHundredths(review.interval_days * review.easiness)),
            !.repetitions = review.repetitions + 1]

\* _apply_sm2 with easiness adjusted before the interval is computed
ApplySm2EasinessFirst(review, quality, t) ==
    IF quality < 0 \/ quality > 5
    THEN [raised |-> TRUE, status_code |-> 400,
          detail |-> "Quality must be between 0 and 5", review |-> review]
    ELSE LET e == [review EXCEPT !.easiness = NextEasiness(review.easiness, quality)]
             s == Sm2Schedule(e, quality)
         IN [raised |-> FALSE, status_code |-> 0, detail |-> "",
             review |-> [s EXCEPT
                 !.last_quality = Some(quality),
                 !.due_at = t + s.interval_days * TicksPerDay]]

\* _apply_sm2 with the range check after the assignments
ApplySm2LateCheck(review, quality, t) ==
    LET s == Sm2Schedule(review, quality)
        r == [s EXCEPT
                 !.easiness = NextEasiness(review.easiness, quality),
                 !.last_quality = Some(quality),
                 !.due_at = t + s.interval_days * TicksPerDay]
    IN IF quality < 0 \/ quality > 5
       THEN [raised |-> TRUE, status_code |-> 400,
             detail |-> "Quality must be between 0 and 5", review |-> r]
       ELSE [raised |-> FALSE, status_code |-> 0, detail |-> "", review |-> r]

\* the schedule with due_at set to the time of the grading
ApplySm2DueNow(review, quality, t) ==
    IF quality < 0 \/ quality > 5
    THEN [raised |-> TRUE, status_code |-> 400,
          detail |-> "Quality must be between 0 and 5", review |-> review]
    ELSE LET s == Sm2Schedule(review, quality)
         IN [raised |-> FALSE, status_code |-> 0, detail |-> "",
             review |-> [s EXCEPT
                 !.easiness = NextEasiness(review.easiness, quality),
                 !.last_quality = Some(quality),
                 !.due_at = t]]

\* _apply_sm2: the range check raises before anything is assigned; otherwise
\* the schedule is computed from the easiness the call started with, then
\* easiness, last_quality and due_at are assigned in that order.
ApplySm2(review, quality, t) ==
    IF quality < 0 \/ quality > 5
    THEN [raised |-> TRUE, status_code |-> 400,
          detail |-> "Quality must be between 0 and 5", review |-> review]
    ELSE LET s == Sm2Schedule(review, quality)
         IN [raised |-> FALSE, status_code |-> 0, detail |-> "",
             review |-> [s EXCEPT
                 !.easiness = NextEasiness(review.easiness, quality),
                 !.last_quality = Some(quality),
                 !.due_at = t + s.interval_days * TicksPerDay]]

\* ------------------------------------------------------------------- text
Spaces == {" "}
Digits == {"0", "1", "2", "3", "4", "5", "6", "7", "8", "9"}

\* str.lower() on one character of the alphabet used here
LowerChar(c) ==
    CASE c = "A" -> "a"
      [] c = "B" -> "b"
      [] c = "P" -> "p"
      [] OTHER -> c

Lower(s) == [i \in 1 .. Len(s) |-> LowerChar(s[i])]

RECURSIVE LStrip(_)
LStrip(s) == IF s # <<>> /\ Head(s) \in Spaces THEN LStrip(Tail(s)) ELSE s

RECURSIVE RStrip(_)
RStrip(s) ==
    IF s # <<>> /\ s[Len(s)] \in Spaces THEN RStrip(SubSeq(s, 1, Len(s) - 1)) ELSE s

Strip(s) == RStrip(LStrip(s))

\* _normalize_answer on an Optional[str]: "" for None and for "", otherwise
\* text.strip().lower()
NormalizeAnswer(text) ==
    IF text = None THEN <<>>
    ELSE LET t == CHOOSE x \in text : TRUE
         IN IF t = <<>> THEN <<>> ELSE Lower(Strip(t))

\* ------------------------------------------------------------ json.loads
\* A decoded JSON value: a string, a number or an array of values.
JStr(t) == [kind |-> "str", text |-> t, num |-> 0, items |-> <<>>]
JNum(n) == [kind |-> "num", text |-> <<>>, num |-> n, items |-> <<>>]
JList(xs) == [kind |-> "list", text |-> <<>>, num |-> 0, items |-> xs]
JFail == [ok |-> FALSE, val |-> JNum(0), next |-> 0]
JOk(v, n) == [ok |-> TRUE, val |-> v, next |-> n]

RECURSIVE SkipWs(_, _)
SkipWs(s, i) == IF i <= Len(s) /\ s[i] \in Spaces THEN SkipWs(s, i + 1) ELSE i

\* index of the closing quote of a string whose body starts at i, 0 if none
RECURSIVE ClosingQuote(_, _)
ClosingQuote(s, i) ==
    IF i > Len(s) THEN 0
    ELSE IF s[i] = "\"" THEN i
    ELSE ClosingQuote(s, i + 1)

RECURSIVE DigitsEnd(_, _)
DigitsEnd(s, i) == IF i <= Len(s) /\ s[i] \in Digits THEN DigitsEnd(s, i + 1) ELSE i

DigitValue(c) == CHOOSE d \in 0 .. 9 : <<"0", "1", "2", "3", "4", "5", "6", "7", "8", "9">>[d + 1] = c

RECURSIVE NumberValue(_, _, _)
NumberValue(s, i, j) ==
    IF j < i THEN 0 ELSE NumberValue(s, i, j - 1) * 10 + DigitValue(s[j])

RECURSIVE ParseValue(_, _)
RECURSIVE ParseItems(_, _, _)

\* the value that starts at index i (leading whitespace already skipped)
ParseValue(s, i) ==
    IF i > Len(s) THEN JFail
    ELSE IF s[i] = "\"" THEN
        LET j == ClosingQuote(s, i + 1)
        IN IF j = 0 THEN JFail ELSE JOk(JStr(SubSeq(s, i + 1, j - 1)), j + 1)
    ELSE IF s[i] \in Digits THEN
        LET j == DigitsEnd(s, i)
        IN \* JSON numbers have no leading zeros
           IF s[i] = "0" /\ j > i + 1 THEN JFail
           ELSE JOk(JNum(NumberValue(s, i, j - 1)), j)
    ELSE IF s[i] = "[" THEN
        LET k == SkipWs(s, i + 1)
        IN IF k <= Len(s) /\ s[k] = "]" THEN JOk(JList(<<>>), k + 1)
           ELSE ParseItems(s, k, <<>>)
    ELSE JFail

\* the rest of an array: an item at index i, then "," and more, or "]"
ParseItems(s, i, acc) ==
    LET item == ParseValue(s, i)
    IN IF ~item.ok THEN JFail
       ELSE LET k == SkipWs(s, item.next)
                xs == Append(acc, item.val)
            IN IF k > Len(s) THEN JFail
               ELSE IF s[k] = "]" THEN JOk(JList(xs), k + 1)
               ELSE IF s[k] = "," THEN ParseItems(s, SkipWs(s, k + 1), xs)
               ELSE JFail

\* json.loads(text): ok is FALSE where the decoder raises JSONDecodeError
JsonLoads(s) ==
    LET v == ParseValue(s, SkipWs(s, 1))
    IN IF v.ok /\ SkipWs(s, v.next) > Len(s) THEN v ELSE JFail

\* ------------------------------------------------------ answer evaluation
\* The outcome of an evaluation: a boolean, or an exception that escapes.
Returned(b) == [raised |-> FALSE, value |-> b]
Raised == [raised |-> TRUE, value |-> FALSE]

\* _normalize_answer applied to a decoded JSON value, as _check_cloze_answer
\* does with user_answers[i]: a falsy value (0, []) gives "", any other
\* non-string has no .strip() and raises AttributeError.
NormalizeJson(v) ==
    IF v.kind = "str" THEN [raised |-> FALSE, text |-> NormalizeAnswer(Some(v.text))]
    ELSE IF v.kind = "num" /\ v.num = 0 THEN [raised |-> FALSE, text |-> <<>>]
    ELSE IF v.kind = "list" /\ v.items = <<>> THEN [raised |-> FALSE, text |-> <<>>]
    ELSE [raised |-> TRUE, text |-> <<>>]

\* the normalized acceptable answers of one blank: a single string or a
\* list of strings
AcceptableAnswers(blank) ==
    IF blank.answer.kind = "list"
    THEN {NormalizeAnswer(Some(blank.answer.items[k].text)) : k \in 1 .. Len(blank.answer.items)}
    ELSE {NormalizeAnswer(Some(blank.answer.text))}

\* the for loop over the blanks, from index i on
RECURSIVE CheckBlanks(_, _, _)
CheckBlanks(blanks, user_answers, i) ==
    IF i > Len(blanks) THEN Returned(TRUE)
    ELSE LET user_ans == NormalizeJson(user_answers[i])
         IN IF user_ans.raised THEN Raised
            ELSE IF ~blanks[i].has_answer THEN Returned(FALSE)
            ELSE IF user_ans.text \notin AcceptableAnswers(blanks[i]) THEN Returned(FALSE)
            ELSE CheckBlanks(blanks, user_answers, i + 1)

\* the cloze check without the comparison of the two lengths: a missing
\* entry is an IndexError, which is caught; entries beyond the blanks are
\* never looked at
CheckClozeAnswerNoCount(card, user_answer) ==
    IF user_answer = None \/ user_answer = Some(<<>>) \/ card.cloze_data = None
    THEN Returned(FALSE)
    ELSE LET decoded == JsonLoads(CHOOSE x \in user_answer : TRUE)
             blanks == CHOOSE b \in card.cloze_data : TRUE
         IN IF ~decoded.ok THEN Returned(FALSE)
            ELSE IF decoded.val.kind # "list" THEN Returned(FALSE)
            ELSE IF Len(decoded.val.items) < Len(blanks) THEN Returned(FALSE)
            ELSE CheckBlanks(blanks, decoded.val.items, 1)

\* _check_cloze_answer.  cloze_data is None or Some(blanks); user_answer is
\* an Optional text.
CheckClozeAnswer(card, user_answer) ==
    IF user_answer = None \/ user_answer = Some(<<>>) \/ card.cloze_data = None
    THEN Returned(FALSE)
    ELSE LET decoded == JsonLoads(CHOOSE x \in user_answer : TRUE)
             blanks == CHOOSE b \in card.cloze_data : TRUE
         IN IF ~decoded.ok THEN Returned(FALSE)
            ELSE IF decoded.val.kind # "list" THEN Returned(FALSE)
            ELSE IF Len(decoded.val.items) # Len(blanks) THEN Returned(FALSE)
            ELSE CheckBlanks(blanks, decoded.val.items, 1)

\* the evaluator comparing a choice in normalized form
CheckAnswerCorrectnessFoldedChoice(card, user_answer) ==
    IF user_answer = None \/ user_answer = Some(<<>>) THEN Returned(FALSE)
    ELSE IF card.type = "multiple_choice"
    THEN Returned(NormalizeAnswer(user_answer) = NormalizeAnswer(Some(card.answer)))
    ELSE IF card.type = "short_answer" THEN
        IF card.options # None /\ card.options # Some(<<>>)
        THEN LET valid_answers == CHOOSE o \in card.options : TRUE
             IN Returned(NormalizeAnswer(user_answer) \in
                    {NormalizeAnswer(Some(valid_answers[k])) : k \in 1 .. Len(valid_answers)})
        ELSE Returned(NormalizeAnswer(user_answer) = NormalizeAnswer(Some(card.answer)))
    ELSE IF card.type = "cloze" THEN CheckClozeAnswer(card, user_answer)
    ELSE Returned(FALSE)

\* the evaluator accepting card.answer next to the options
CheckAnswerCorrectnessAnswerAlsoValid(card, user_answer) ==
    IF user_answer = None \/ user_answer = Some(<<>>) THEN Returned(FALSE)
    ELSE IF card.type = "multiple_choice" THEN Returned(user_answer = Some(card.answer))
    ELSE IF card.type = "short_answer" THEN
        IF card.options # None /\ card.options # Some(<<>>)
        THEN LET valid_answers == Append(CHOOSE o \in card.options : TRUE, card.answer)
             IN Returned(NormalizeAnswer(user_answer) \in
                    {NormalizeAnswer(Some(valid_answers[k])) : k \in 1 .. Len(valid_answers)})
        ELSE Returned(NormalizeAnswer(user_answer) = NormalizeAnswer(Some(card.answer)))
    ELSE IF card.type = "cloze" THEN CheckClozeAnswer(card, user_answer)
    ELSE Returned(FALSE)

\* the evaluator without the test for an empty answer
CheckAnswerCorrectnessNoEmptyTest(card, user_answer) ==
    IF card.type = "multiple_choice" THEN Returned(user_answer = Some(card.answer))
    ELSE IF card.type = "short_answer" THEN
        IF card.options # None /\ card.options # Some(<<>>)
        THEN LET valid_answers == CHOOSE o \in card.options : TRUE
             IN Returned(NormalizeAnswer(user_answer) \in
                    {NormalizeAnswer(Some(valid_answers[k])) : k \in 1 .. Len(valid_answers)})
        ELSE Returned(NormalizeAnswer(user_answer) = NormalizeAnswer(Some(card.answer)))
    ELSE IF card.type = "cloze" THEN CheckClozeAnswer(card, user_answer)
    ELSE Returned(FALSE)

\* _check_answer_correctness
CheckAnswerCorrectness(card, user_answer) ==
    IF user_answer = None \/ user_answer = Some(<<>>) THEN Returned(FALSE)
    ELSE IF card.type = "multiple_choice" THEN Returned(user_answer = Some(card.answer))
    ELSE IF card.type = "short_answer" THEN
        IF card.options # None /\ card.options # Some(<<>>)
        THEN LET valid_answers == CHOOSE o \in card.options : TRUE
             IN Returned(NormalizeAnswer(user_answer) \in
                    {NormalizeAnswer(Some(valid_answers[k])) : k \in 1 .. Len(valid_answers)})
        ELSE Returned(NormalizeAnswer(user_answer) = NormalizeAnswer(Some(card.answer)))
    ELSE IF card.type = "cloze" THEN CheckClozeAnswer(card, user_answer)
    ELSE Returned(FALSE)

\* --------------------------------------------------------------- database
Users == {1, 2}
Modes == {"review", "practice", "exam", "flagged"}
CardTypes == {"basic", "multiple_choice", "short_answer", "cloze"}

Quote == "\""

\* The cards of the database (deck and card authoring is outside this
\* model): deck 1 holds one card of each type, deck 2 a single card.
CardTable ==
    << [deck_id |-> 1, type |-> "multiple_choice", answer |-> <<"b">>,
        options |-> Some(<< <<"a">>, <<"b">> >>), cloze_data |-> None],
       [deck_id |-> 1, type |-> "short_answer", answer |-> <<"B">>,
        options |-> None, cloze_data |-> None],
       [deck_id |-> 1, type |-> "cloze", answer |-> <<"b">>,
        options |-> None,
        cloze_data |-> Some(<< [has_answer |-> TRUE, answer |-> JStr(<<"B">>)] >>)],
       [deck_id |-> 1, type |-> "basic", answer |-> <<"b">>,
        options |-> None, cloze_data |-> None],
       [deck_id |-> 2, type |-> "short_answer", answer |-> <<"a">>,
        options |-> Some(<< <<"a">>, <<"b">> >>), cloze_data |-> None] >>

CardIds == DOMAIN CardTable

Today(t) == t \div TicksPerDay

NotCalled == [called |-> FALSE, raised |-> FALSE, status_code |-> 0]

NoCall == [op |-> "none", status_code |-> 0, detail |-> "", owner |-> "none", card |-> "none"]

NotEvaluated == [called |-> FALSE, raised |-> FALSE, value |-> FALSE]

NoStats ==
    [called |-> FALSE, user |-> 0, current_streak |-> 0, longest_streak |-> 0,
     last_activity_date |-> None, is_active |-> FALSE]

\* no answer has been recorded and no session finished
NothingStudied ==
    /\ responses = <<>>
    /\ srs_reviews = {}
    /\ progress = {}
    /\ users = [u \in Users |-> [current_streak |-> 0, longest_streak |-> 0,
                                 last_activity_date |-> None]]
    /\ last = NoCall

EmptyDatabase ==
    /\ sessions = <<>>
    /\ NothingStudied

\* no card is flagged and the sequence of the table has given out no id
NothingFlagged ==
    /\ flagged_cards = {}
    /\ flag_seq = 0
    /\ flag_result = None

\* neither the evaluator nor get_streak_stats nor due_reviews has been
\* called, no card is flagged and no request is in flight
NothingCalled ==
    /\ eval_card = CardTable[1]
    /\ eval_answer = None
    /\ eval_outcome = NotEvaluated
    /\ streak_stats = NoStats
    /\ due_list = None
    /\ NothingFlagged
    /\ txns = <<>>

\* the lookup that finds only the sessions still ACTIVE
GetSessionActiveOnly(tbl, session_id, user) ==
    IF /\ session_id \in DOMAIN tbl
       /\ tbl[session_id].user_id = user
       /\ tbl[session_id].status = "active"
    THEN Some(session_id)
    ELSE None

\* the lookup without the comparison of user_id
GetSessionNoOwnerCheck(tbl, session_id, user) ==
    IF session_id \in DOMAIN tbl THEN Some(session_id) ELSE None

\* get_session_or_404: Some(id) of the session, None where it raises 404
GetSessionOr404(tbl, session_id, user) ==
    IF session_id \in DOMAIN tbl /\ tbl[session_id].user_id = user
    THEN Some(session_id)
    ELSE None

\* how the session named in a request relates to the caller
Ownership(tbl, session_id, user) ==
    IF session_id \notin DOMAIN tbl THEN "absent"
    ELSE IF tbl[session_id].user_id = user THEN "owner"
    ELSE "foreign"

SessionNotFound(op, tbl, session_id, user) ==
    [op |-> op, status_code |-> 404, detail |-> "Session not found",
     owner |-> Ownership(tbl, session_id, user), card |-> "none"]

\* create_session: a new row, status ACTIVE
NewSession(user, deck_id, mode) ==
    [user_id |-> user, deck_id |-> deck_id, mode |-> mode,
     status |-> "active", ended_at |-> None]

\* a finish that flips the status
ReopenedSession(session, t) ==
    [session EXCEPT !.status = IF @ = "active" THEN "completed" ELSE "active",
                    !.ended_at = Some(t)]

\* finish_session, the assignments to the session
FinishedSession(session, t) ==
    [session EXCEPT !.status = "completed", !.ended_at = Some(t)]

\* the update counting any earlier day as the day before
UpdateUserStreakGapContinues(user, today) ==
    IF user.last_activity_date = Some(today) THEN user
    ELSE LET current == IF \E d \in user.last_activity_date : d < today
                        THEN user.current_streak + 1
                        ELSE 1
         IN [current_streak |-> current,
             longest_streak |-> Max(user.longest_streak, current),
             last_activity_date |-> Some(today)]

\* the update storing the current streak as the longest
UpdateUserStreakNoMax(user, today) ==
    IF user.last_activity_date = Some(today) THEN user
    ELSE LET current == IF user.last_activity_date = Some(today - 1)
                        THEN user.current_streak + 1
                        ELSE 1
         IN [current_streak |-> current,
             longest_streak |-> current,
             last_activity_date |-> Some(today)]

\* the update without the same-day case
UpdateUserStreakNoSameDay(user, today) ==
    LET current == IF user.last_activity_date = Some(today - 1)
                   THEN user.current_streak + 1
                   ELSE 1
    IN [current_streak |-> current,
        longest_streak |-> Max(user.longest_streak, current),
        last_activity_date |-> Some(today)]

\* streak_service.update_user_streak, on the streak fields of one user
UpdateUserStreak(user, today) ==
    IF user.last_activity_date = Some(today) THEN user
    ELSE LET current == IF user.last_activity_date = Some(today - 1)
                        THEN user.current_streak + 1
                        ELSE 1
         IN [current_streak |-> current,
             longest_streak |-> Max(user.longest_streak, current),
             last_activity_date |-> Some(today)]

\* the projection active only on the day of the last activity
GetStreakStatsTodayOnly(user, today) ==
    LET is_active == user.last_activity_date = Some(today)
    IN [current_streak |-> IF is_active THEN user.current_streak ELSE 0,
        longest_streak |-> user.longest_streak,
        last_activity_date |-> user.last_activity_date,
        is_active |-> is_active]

\* streak_service.get_streak_stats, on the streak fields of one user
GetStreakStats(user, today) ==
    LET is_active == \E d \in user.last_activity_date : d >= today - 1
    IN [current_streak |-> IF is_active THEN user.current_streak ELSE 0,
        longest_streak |-> user.longest_streak,
        last_activity_date |-> user.last_activity_date,
        is_active |-> is_active]

\* the primary key an INSERT into a table gives a row: rows are never
\* deleted from these tables, so the sequence is one past the largest id
NextId(tbl) == 1 + Cardinality({r.id : r \in tbl})

\* an SRSReview object as the model's column defaults make it; id is 0
\* until the INSERT
NewReview(user, card_id, t) ==
    [id |-> 0, user_id |-> user, card_id |-> card_id, repetitions |-> 0, interval_days |-> 1,
     easiness |-> DefaultEasiness, last_quality |-> None, due_at |-> t]

\* the select that never finds a row
ReviewRowsNotFound(tbl, user, card_id) == {}

\* the select without the condition on user_id
ReviewRowsOfAnyUser(tbl, user, card_id) == {r \in tbl : r.card_id = card_id}

\* the rows _get_review_state selects
ReviewRows(tbl, user, card_id) == {r \in tbl : r.user_id = user /\ r.card_id = card_id}

\* the grading branch without the EXAM case
GradeAnswerPracticeOnly(mode, card, user_answer) ==
    IF mode = "practice" /\ card.type \in {"multiple_choice", "short_answer", "cloze"}
    THEN LET r == CheckAnswerCorrectness(card, user_answer)
         IN [raised |-> r.raised, is_correct |-> Some(r.value)]
    ELSE [raised |-> FALSE, is_correct |-> None]

\* record_answer, the grading branch: is_correct as an Optional[bool], or
\* the evaluator's exception
GradeAnswer(mode, card, user_answer) ==
    IF mode = "practice" /\ card.type \in {"multiple_choice", "short_answer", "cloze"}
    THEN LET r == CheckAnswerCorrectness(card, user_answer)
         IN [raised |-> r.raised, is_correct |-> Some(r.value)]
    ELSE IF mode = "exam"
    THEN LET r == CheckAnswerCorrectness(card, user_answer)
         IN [raised |-> r.raised, is_correct |-> Some(r.value)]
    ELSE [raised |-> FALSE, is_correct |-> None]

\* the scheduler run for every answer that carries a quality
ShouldScheduleAnyMode(mode, quality) == quality # None

\* record_answer, the condition under which the scheduler runs
ShouldSchedule(mode, quality) == mode = "review" /\ quality # None

\* the card check without the comparison of deck_id
CardExists(card_id, session) == card_id \in CardIds

\* submit_answer, the card check: the card exists and is of the session's deck
CardInSessionDeck(card_id, session) ==
    card_id \in CardIds /\ CardTable[card_id].deck_id = session.deck_id

CardClass(card_id, session) ==
    IF card_id \notin CardIds THEN "absent"
    ELSE IF CardTable[card_id].deck_id = session.deck_id THEN "match"
    ELSE "other_deck"

\* the counts _update_progress queries
TotalCards(deck_id) == Cardinality({c \in CardIds : CardTable[c].deck_id = deck_id})

ReviewedCards(resp, sess, user, deck_id) ==
    Cardinality({i \in DOMAIN resp :
        /\ sess[resp[i].session_id].user_id = user
        /\ sess[resp[i].session_id].deck_id = deck_id})

\* the percentage without the cap at 100
PercentCompleteUncapped(reviewed, total) == [num |-> 100 * reviewed, den |-> total]

\* min(100.0, reviewed / total * 100) as the exact fraction num / den
PercentComplete(reviewed, total) == [num |-> Min(100 * total, 100 * reviewed), den |-> total]

\* _update_progress: fetch or create the (user, deck) row, recompute it
UpdateProgress(tbl, resp, sess, user, deck_id, t) ==
    LET found == {p \in tbl : p.user_id = user /\ p.deck_id = deck_id}
        row == IF found = {}
               THEN [id |-> NextId(tbl), user_id |-> user, deck_id |-> deck_id,
                     percent_complete |-> [num |-> 0, den |-> 1],
                     last_studied_at |-> None, streak |-> 0]
               ELSE CHOOSE p \in found : TRUE
        total_cards == TotalCards(deck_id)
        reviewed_cards == ReviewedCards(resp, sess, user, deck_id)
        updated == [row EXCEPT
            !.percent_complete = IF total_cards # 0
                                 THEN PercentComplete(reviewed_cards, total_cards)
                                 ELSE row.percent_complete,
            !.last_studied_at = Some(t),
            !.streak = Max(row.streak, 1)]
    IN (tbl \ found) \cup {updated}

\* --------------------------------------------------------------- requests
Reply(op, code, detail, owner, card) ==
    [op |-> op, status_code |-> code, detail |-> detail, owner |-> owner, card |-> card]

\* POST /study/sessions
CreateStudySession(user, deck_id, mode) ==
    /\ Len(sessions) < MaxSessions
    /\ sessions' = Append(sessions, NewSession(user, deck_id, mode))
    /\ last' = Reply("create_session", 201, "", "owner", "none")
    /\ UNCHANGED <<now, responses, srs_reviews, progress, users, sm2, evaluation, streak_stats, due_list, flags, txns>>

\* GET /study/sessions/{session_id}
ReadStudySession(user, session_id) ==
    /\ last' = IF GetSessionOr404(sessions, session_id, user) = None
               THEN SessionNotFound("read_session", sessions, session_id, user)
               ELSE Reply("read_session", 200, "", Ownership(sessions, session_id, user), "none")
    /\ UNCHANGED <<now, db, sm2, evaluation, streak_stats, due_list, flags, txns>>

\* record_answer with a commit of the response before the scheduling
RecordAnswerCommitFirst(session_id, card_id, user, user_answer, quality) ==
    LET session == sessions[session_id]
        card == CardTable[card_id]
        owner == Ownership(sessions, session_id, user)
        class == CardClass(card_id, session)
        grade == GradeAnswer(session.mode, card, user_answer)
        response == [session_id |-> session_id, card_id |-> card_id,
                     user_answer |-> user_answer, quality |-> quality,
                     is_correct |-> grade.is_correct]
        added == Append(responses, response)
        rows == ReviewRows(srs_reviews, user, card_id)
        review == IF rows = {}
                  THEN [NewReview(user, card_id, now) EXCEPT !.id = NextId(srs_reviews)]
                  ELSE CHOOSE r \in rows : TRUE
        graded == ApplySm2(review, CHOOSE q \in quality : TRUE, now)
    IN IF grade.raised
       THEN /\ last' = Reply("submit_answer", 500, "Internal Server Error", owner, class)
            /\ UNCHANGED <<now, db, sm2, evaluation, streak_stats, due_list, flags, txns>>
       ELSE IF ShouldSchedule(session.mode, quality) /\ graded.raised
       THEN /\ Len(responses) < MaxResponses
            /\ responses' = added
            /\ last' = Reply("submit_answer", graded.status_code, graded.detail, owner, class)
            /\ UNCHANGED <<now, sessions, srs_reviews, progress, users, sm2, evaluation,
                           streak_stats, due_list, flags, txns>>
       ELSE /\ Len(responses) < MaxResponses
            /\ responses' = added
            /\ srs_reviews' = IF ShouldSchedule(session.mode, quality)
                              THEN (srs_reviews \ rows) \cup {graded.review}
                              ELSE srs_reviews
            /\ progress' = UpdateProgress(progress, added, sessions, user, session.deck_id, now)
            /\ last' = Reply("submit_answer", 200, "", owner, class)
            /\ UNCHANGED <<now, sessions, users, sm2, evaluation, streak_stats, due_list, flags, txns>>

\* record_answer: everything up to and including db.commit().  An exception
\* (the evaluator's, or the 400 of _apply_sm2) leaves the function before
\* the commit, and the request's transaction is discarded.
RecordAnswer(session_id, card_id, user, user_answer, quality) ==
    LET session == sessions[session_id]
        card == CardTable[card_id]
        owner == Ownership(sessions, session_id, user)
        class == CardClass(card_id, session)
        grade == GradeAnswer(session.mode, card, user_answer)
        response == [session_id |-> session_id, card_id |-> card_id,
                     user_answer |-> user_answer, quality |-> quality,
                     is_correct |-> grade.is_correct]
        added == Append(responses, response)
        rows == ReviewRows(srs_reviews, user, card_id)
        review == IF rows = {}
                  THEN [NewReview(user, card_id, now) EXCEPT !.id = NextId(srs_reviews)]
                  ELSE CHOOSE r \in rows : TRUE
        graded == ApplySm2(review, CHOOSE q \in quality : TRUE, now)
    IN IF grade.raised
       THEN /\ last' = Reply("submit_answer", 500, "Internal Server Error", owner, class)
            /\ UNCHANGED <<now, db, sm2, evaluation, streak_stats, due_list, flags, txns>>
       ELSE IF ShouldSchedule(session.mode, quality) /\ graded.raised
       THEN /\ last' = Reply("submit_answer", graded.status_code, graded.detail, owner, class)
            /\ UNCHANGED <<now, db, sm2, evaluation, streak_stats, due_list, flags, txns>>
       ELSE /\ Len(responses) < MaxResponses
            /\ responses' = added
            /\ srs_reviews' = IF ShouldSchedule(session.mode, quality)
                              THEN (srs_reviews \ rows) \cup {graded.review}
                              ELSE srs_reviews
            /\ progress' = UpdateProgress(progress, added, sessions, user, session.deck_id, now)
            /\ last' = Reply("submit_answer", 200, "", owner, class)
            /\ UNCHANGED <<now, sessions, users, sm2, evaluation, streak_stats, due_list, flags, txns>>

\* POST /study/sessions/{session_id}/answer
SubmitAnswer(user, session_id, card_id, user_answer, quality) ==
    IF GetSessionOr404(sessions, session_id, user) = None
    THEN /\ last' = SessionNotFound("submit_answer", sessions, session_id, user)
         /\ UNCHANGED <<now, db, sm2, evaluation, streak_stats, due_list, flags, txns>>
    ELSE IF ~CardInSessionDeck(card_id, sessions[session_id])
    THEN /\ last' = Reply("submit_answer", 404, "Card not part of session deck",
                          Ownership(sessions, session_id, user),
                          CardClass(card_id, sessions[session_id]))
         /\ UNCHANGED <<now, db, sm2, evaluation, streak_stats, due_list, flags, txns>>
    ELSE RecordAnswer(session_id, card_id, user, user_answer, quality)

\* POST /study/sessions/{session_id}/finish
FinishSession(user, session_id) ==
    IF GetSessionOr404(sessions, session_id, user) = None
    THEN /\ last' = SessionNotFound("finish_session", sessions, session_id, user)
         /\ UNCHANGED <<now, db, sm2, evaluation, streak_stats, due_list, flags, txns>>
    ELSE /\ sessions' = [sessions EXCEPT ![session_id] = FinishedSession(@, now)]
         /\ users' = [users EXCEPT ![user] = UpdateUserStreak(@, Today(now))]
         /\ last' = Reply("finish_session", 200, "", Ownership(sessions, session_id, user), "none")
         /\ UNCHANGED <<now, responses, srs_reviews, progress, sm2, evaluation, streak_stats, due_list, flags, txns>>

\* the query without the condition on due_at
DueRowsOfAnyTime(tbl, user, t) == {r \in tbl : r.user_id = user}

\* due_reviews, the rows the query selects
DueRows(tbl, user, t) == {r \in tbl : r.user_id = user /\ r.due_at <= t}

\* the orders ORDER BY due_at can return the rows in: rows with the same
\* due_at come in either order
OrderedByDueAt(rows) ==
    {f \in [1 .. Cardinality(rows) -> rows] :
        /\ \A i, j \in DOMAIN f : i # j => f[i] # f[j]
        /\ \A i, j \in DOMAIN f : i < j => f[i].due_at <= f[j].due_at}

\* the DueReviewCard built from a review and its card
DueReviewCard(review) ==
    [card_id |-> review.card_id, deck_id |-> CardTable[review.card_id].deck_id,
     due_at |-> review.due_at, repetitions |-> review.repetitions,
     interval_days |-> review.interval_days, easiness |-> review.easiness]

\* due_reviews(db, user): the lists it can return at time t
DueReviews(tbl, user, t) ==
    {[i \in DOMAIN f |-> DueReviewCard(f[i])] : f \in OrderedByDueAt(DueRows(tbl, user, t))}

\* GET /study/reviews/due
GetDueReviews(user) ==
    /\ \E results \in DueReviews(srs_reviews, user, now) :
          due_list' = Some([user |-> user, items |-> results])
    /\ last' = Reply("due_reviews", 200, "", "none", "none")
    /\ UNCHANGED <<now, db, sm2, evaluation, streak_stats, flags, txns>>

\* the select of flag_card and unflag_card that never finds a row
ExistingFlagsNotFound(tbl, user, card_id) == {}

\* the FlaggedCard rows of a user for a card
ExistingFlags(tbl, user, card_id) == {f \in tbl : f.user_id = user /\ f.card_id = card_id}

FlagReply(op, code, detail) == Reply(op, code, detail, "none", "none")

\* POST /flagged-cards: the flag of the pair if there is one, else a new row
FlagCard(user, card_id, deck_id) ==
    IF card_id \notin CardIds
    THEN /\ last' = FlagReply("flag_card", 404, "Card not found")
         /\ flag_result' = None
         /\ UNCHANGED <<now, db, sm2, evaluation, streak_stats, due_list, flagged_cards, flag_seq, txns>>
    ELSE IF CardTable[card_id].deck_id # deck_id
    THEN /\ last' = FlagReply("flag_card", 400, "Card does not belong to the specified deck")
         /\ flag_result' = None
         /\ UNCHANGED <<now, db, sm2, evaluation, streak_stats, due_list, flagged_cards, flag_seq, txns>>
    ELSE IF ExistingFlags(flagged_cards, user, card_id) # {}
    THEN /\ \E existing \in ExistingFlags(flagged_cards, user, card_id) :
               flag_result' = Some(existing)
         /\ last' = FlagReply("flag_card", 201, "")
         /\ UNCHANGED <<now, db, sm2, evaluation, streak_stats, due_list, flagged_cards, flag_seq, txns>>
    ELSE LET flagged == [id |-> flag_seq + 1, user_id |-> user, card_id |-> card_id,
                         deck_id |-> deck_id, flagged_at |-> now]
         IN /\ flag_seq < MaxFlags
            /\ flag_seq' = flag_seq + 1
            /\ flagged_cards' = flagged_cards \cup {flagged}
            /\ flag_result' = Some(flagged)
            /\ last' = FlagReply("flag_card", 201, "")
            /\ UNCHANGED <<now, db, sm2, evaluation, streak_stats, due_list, txns>>

\* DELETE /flagged-cards/{card_id}
UnflagCard(user, card_id) ==
    IF ExistingFlags(flagged_cards, user, card_id) = {}
    THEN /\ last' = FlagReply("unflag_card", 404, "Card is not flagged")
         /\ flag_result' = None
         /\ UNCHANGED <<now, db, sm2, evaluation, streak_stats, due_list, flagged_cards, flag_seq, txns>>
    ELSE /\ \E flagged \in ExistingFlags(flagged_cards, user, card_id) :
               flagged_cards' = flagged_cards \ {flagged}
         /\ flag_result' = None
         /\ last' = FlagReply("unflag_card", 200, "Card unflagged successfully")
         /\ UNCHANGED <<now, db, sm2, evaluation, streak_stats, due_list, flag_seq, txns>>

\* ---------------------------------------------- requests, step by step
\* record_answer as the statements it sends to the database, for requests
\* in flight at the same time.  Each request has a transaction of its own: it
\* reads the committed rows and its own, and its rows are committed together.
\* The requests are review answers of user 1 in session 1, with quality 4.
Writers == 1 .. MaxWriters
WriterUser == 1
WriterSession == 1
WriterQuality == 4
WriterAnswer == Some(<<"b">>)

Idle == [pc |-> "idle", card_id |-> 0, review_found |-> {}, review |-> {},
         progress_found |-> {}, progress |-> {}]

\* the rows the other transactions have written and not yet committed
PendingOfOthers(w, field) ==
    UNION {txns[o][field] : o \in {x \in Writers : x # w /\ txns[x].pc \notin {"committed", "failed"}}}

\* the next value of a table's id sequence
FreshId(tbl, pending) == 1 + Cardinality({r.id : r \in tbl \cup pending})

\* the tables without their unique constraints
ReviewKeyHeldNever(tbl, user, card_id) == FALSE

\* the unique constraints: a row of the table holds the key
ReviewKeyHeld(tbl, user, card_id) == \E r \in tbl : r.user_id = user /\ r.card_id = card_id

ProgressKeyHeld(tbl, user, deck_id) == \E r \in tbl : r.user_id = user /\ r.deck_id = deck_id

\* the response the request adds to its session
WriterResponse(w) ==
    [session_id |-> WriterSession, card_id |-> txns[w].card_id, user_answer |-> WriterAnswer,
     quality |-> Some(WriterQuality),
     is_correct |-> GradeAnswer(sessions[WriterSession].mode, CardTable[txns[w].card_id],
                                WriterAnswer).is_correct]

OnlyTxns == UNCHANGED <<now, db, last, sm2, evaluation, streak_stats, due_list, flags>>

\* record_answer up to db.add(response)
BeginRecordAnswer(w, card_id) ==
    /\ txns[w].pc = "idle"
    /\ txns' = [txns EXCEPT ![w] = [@ EXCEPT !.pc = "begun", !.card_id = card_id]]
    /\ OnlyTxns

\* _get_review_state, the select
SelectReview(w) ==
    /\ txns[w].pc = "begun"
    /\ txns' = [txns EXCEPT ![w] =
                   [@ EXCEPT !.pc = "review_selected",
                             !.review_found = ReviewRows(srs_reviews, WriterUser, txns[w].card_id)]]
    /\ OnlyTxns

\* _get_review_state, db.add and db.flush of a new row where the select
\* found none, then _apply_sm2 on the row.  The insert waits while another
\* transaction holds the key uncommitted and fails once the key is committed.
WriteReview(w) ==
    LET t == txns[w]
        inserted == [NewReview(WriterUser, t.card_id, now)
                        EXCEPT !.id = FreshId(srs_reviews, PendingOfOthers(w, "review"))]
        review == IF t.review_found = {} THEN inserted ELSE CHOOSE r \in t.review_found : TRUE
    IN /\ t.pc = "review_selected"
       /\ IF t.review_found = {} /\ ReviewKeyHeld(srs_reviews, WriterUser, t.card_id)
          THEN /\ txns' = [txns EXCEPT ![w] = [@ EXCEPT !.pc = "failed"]]
               /\ last' = Reply("submit_answer", 500, "Internal Server Error", "owner", "match")
               /\ UNCHANGED <<now, db, sm2, evaluation, streak_stats, due_list, flags>>
          ELSE /\ t.review_found = {} =>
                      ~ReviewKeyHeld(PendingOfOthers(w, "review"), WriterUser, t.card_id)
               /\ txns' = [txns EXCEPT ![w] =
                              [@ EXCEPT !.pc = "review_written",
                                        !.review = {ApplySm2(review, WriterQuality, now).review}]]
               /\ OnlyTxns

\* _update_progress, the select
SelectProgress(w) ==
    /\ txns[w].pc = "review_written"
    /\ txns' = [txns EXCEPT ![w] =
                   [@ EXCEPT !.pc = "progress_selected",
                             !.progress_found =
                                 {r \in progress : /\ r.user_id = WriterUser
                                                   /\ r.deck_id = sessions[WriterSession].deck_id}]]
    /\ OnlyTxns

\* _update_progress, the new row where the select found none, the counts
\* over the committed responses and the request's own, and the assignments
WriteProgress(w) ==
    LET t == txns[w]
        deck_id == sessions[WriterSession].deck_id
        seen == Append(responses, WriterResponse(w))
        updated == CHOOSE r \in UpdateProgress(t.progress_found, seen, sessions,
                                               WriterUser, deck_id, now) : TRUE
        row == IF t.progress_found = {}
               THEN [updated EXCEPT !.id = FreshId(progress, PendingOfOthers(w, "progress"))]
               ELSE updated
    IN /\ t.pc = "progress_selected"
       /\ IF t.progress_found = {} /\ ProgressKeyHeld(progress, WriterUser, deck_id)
          THEN /\ txns' = [txns EXCEPT ![w] = [@ EXCEPT !.pc = "failed"]]
               /\ last' = Reply("submit_answer", 500, "Internal Server Error", "owner", "match")
               /\ UNCHANGED <<now, db, sm2, evaluation, streak_stats, due_list, flags>>
          ELSE /\ t.progress_found = {} =>
                      ~ProgressKeyHeld(PendingOfOthers(w, "progress"), WriterUser, deck_id)
               /\ txns' = [txns EXCEPT ![w] = [@ EXCEPT !.pc = "progress_written", !.progress = {row}]]
               /\ OnlyTxns

\* db.commit(): the response, the review and the progress at once
CommitRecordAnswer(w) ==
    LET t == txns[w]
    IN /\ t.pc = "progress_written"
       /\ responses' = Append(responses, WriterResponse(w))
       /\ srs_reviews' = {r \in srs_reviews : \A n \in t.review : r.id # n.id} \cup t.review
       /\ progress' = {r \in progress : \A n \in t.progress : r.id # n.id} \cup t.progress
       /\ txns' = [txns EXCEPT ![w] = [@ EXCEPT !.pc = "committed"]]
       /\ last' = Reply("submit_answer", 200, "", "owner", "match")
       /\ UNCHANGED <<now, sessions, users, sm2, evaluation, streak_stats, due_list, flags>>

\* time passes
Tick ==
    /\ now < MaxNow
    /\ now' = now + 1
    /\ UNCHANGED <<db, last, sm2, evaluation, streak_stats, due_list, flags, txns>>

\* ---------------------------------------------------------- specification
\* The service from an empty database: two users, sessions on deck 1 in
\* review and practice mode, answers for a card of the deck, a card of
\* another deck and a card that does not exist, session ids up to one that
\* was never allocated.
SessionInputs == 1 .. MaxSessions + 1
ModeInputs == {"review", "practice"}
CardInputs == {1, 5, 6}

Init ==
    /\ now = 0
    /\ EmptyDatabase
    /\ sm2_review = NewReview(1, 1, 0)
    /\ sm2_before = sm2_review
    /\ sm2_quality = 0
    /\ sm2_outcome = NotCalled
    /\ NothingCalled

Next ==
    \/ \E u \in Users, m \in ModeInputs : CreateStudySession(u, 1, m)
    \/ \E u \in Users, sid \in SessionInputs : ReadStudySession(u, sid)
    \/ \E u \in Users, sid \in SessionInputs, cid \in CardInputs :
          SubmitAnswer(u, sid, cid, Some(<<"b">>), Some(4))
    \/ \E u \in Users, sid \in SessionInputs : FinishSession(u, sid)

Spec == Init /\ [][Next]_vars

DeckIds == {CardTable[c].deck_id : c \in CardIds}

\* the QuizResponse rows of a user for a deck, over all of the user's sessions
ResponsesOf(u, d) ==
    SelectSeq(responses, LAMBDA r : /\ sessions[r.session_id].user_id = u
                                    /\ sessions[r.session_id].deck_id = d)

\* C7: a session starts ACTIVE and its status changes only from ACTIVE to
\* COMPLETED; no request makes a COMPLETED session ACTIVE again, and no
\* session disappears.
C7_StatusOneWay ==
    [][ /\ DOMAIN sessions \subseteq DOMAIN sessions'
        /\ \A sid \in DOMAIN sessions' :
              IF sid \in DOMAIN sessions
              THEN /\ sessions[sid].status = "completed" => sessions'[sid].status = "completed"
                   /\ sessions'[sid].status \in {"active", "completed"}
              ELSE sessions'[sid].status = "active" ]_vars

\* an answer recorded in a session that was already completed, with a
\* second session created next to it
C7_Witness ==
    /\ Len(sessions) = 2
    /\ last.op = "submit_answer"
    /\ last.status_code = 200
    /\ sessions[responses[Len(responses)].session_id].status = "completed"

\* C8: a request on a session of another user gets the same 404 "Session
\* not found" as a request on a session id that does not exist, and
\* changes no table and no streak field.
C8_ForeignSessionNotFound ==
    [][ last'.owner \in {"foreign", "absent"} =>
          /\ last'.status_code = 404
          /\ last'.detail = "Session not found"
          /\ UNCHANGED db ]_vars

\* user 2 tries to finish the active session of user 1, which has an answer
C8_Witness ==
    /\ last.op = "finish_session"
    /\ last.owner = "foreign"
    /\ Len(sessions) = 1
    /\ sessions[1].user_id = 1
    /\ sessions[1].status = "active"
    /\ Len(responses) = 1
    /\ \A u \in Users : users[u].last_activity_date = None

\* C9: an answer for a card that does not exist or that belongs to another
\* deck than the session's gets 404 "Card not part of session deck" and
\* records nothing.
C9_CardNotInDeck ==
    [][ (last'.op = "submit_answer" /\ last'.card \in {"absent", "other_deck"}) =>
          /\ last'.status_code = 404
          /\ last'.detail = "Card not part of session deck"
          /\ UNCHANGED db ]_vars

\* a card of deck 2 submitted in a session on deck 1 that holds an answer
C9_Witness ==
    /\ last.op = "submit_answer"
    /\ last.card = "other_deck"
    /\ last.owner = "owner"
    /\ Len(responses) = 1
    /\ Cardinality(progress) = 1

\* a step in which the owner of a session has submitted an answer
OwnerSubmitted == last'.op = "submit_answer" /\ last'.owner = "owner"

\* the answer the step has appended
Appended == responses'[Len(responses')]

\* C24: recordAnswer is accepted whatever the status of the session, on a
\* COMPLETED session as on an ACTIVE one: the owner's answer for a card
\* of the deck is appended, in REVIEW mode with a quality the SRSReview of
\* the pair is rescheduled, the progress is recomputed, and the session
\* keeps its status and its ended_at.
C24_AnswerAfterFinish ==
    [][ OwnerSubmitted =>
          /\ last'.card # "none"
          /\ last'.card = "match" =>
                LET session == sessions[Appended.session_id]
                    before == {r \in srs_reviews : r.user_id = session.user_id
                                                   /\ r.card_id = Appended.card_id}
                    after == {r \in srs_reviews' : r.user_id = session.user_id
                                                   /\ r.card_id = Appended.card_id}
                IN /\ last'.status_code = 200
                   /\ responses' = Append(responses, Appended)
                   /\ sessions' = sessions
                   /\ users' = users
                   /\ Appended.quality = Some(4)
                   /\ IF session.mode = "review"
                      THEN /\ Cardinality(after) = 1
                           /\ \A r \in after :
                                 /\ r.last_quality = Some(4)
                                 /\ r.due_at = now + r.interval_days * TicksPerDay
                                 /\ \A b \in before : r.repetitions = b.repetitions + 1
                                 /\ before = {} => r.repetitions = 1
                      ELSE srs_reviews' = srs_reviews
                   /\ \E p \in progress' :
                         /\ p.user_id = session.user_id
                         /\ p.deck_id = session.deck_id
                         /\ p.last_studied_at = Some(now)
                         /\ p.percent_complete.num * TotalCards(session.deck_id)
                               = p.percent_complete.den
                                   * Min(100 * TotalCards(session.deck_id),
                                         100 * (Len(ResponsesOf(session.user_id, session.deck_id)) + 1)) ]_vars

\* the only session, in review mode, has two answers of its owner and the
\* last one came after the finish: the card was rescheduled a second time
\* and the session is as the finish left it
C24_Witness ==
    /\ Len(sessions) = 1
    /\ sessions[1].status = "completed"
    /\ sessions[1].ended_at = Some(0)
    /\ sessions[1].mode = "review"
    /\ last.op = "submit_answer"
    /\ last.status_code = 200
    /\ Len(responses) = 2
    /\ \E r \in srs_reviews : r.repetitions = 2 /\ r.last_quality = Some(4)
    /\ \A u \in Users : users[u].current_streak <= 1

\* the same with the clock running
NextTimed ==
    \/ Next
    \/ Tick

SpecTimed == Init /\ [][NextTimed]_vars

\* Answers in sessions of every mode: user 1 has created one session per
\* mode on deck 1, whose four cards are one of each type.
SessionPerMode ==
    << NewSession(1, 1, "review"), NewSession(1, 1, "practice"),
       NewSession(1, 1, "exam"), NewSession(1, 1, "flagged") >>

AnswerB == Some(<<"b">>)
AnswerJsonB == Some(<<"[", Quote, "b", Quote, "]">>)
AnswerJsonOne == Some(<<"[", "1", "]">>)

\* the (card_id, user_answer, quality) answers are submitted with: every
\* card with each text and no quality, and card 1 with a valid and an
\* invalid quality
AnswerInputs ==
    ((1 .. 4) \X {AnswerB, AnswerJsonB, AnswerJsonOne} \X {None})
        \cup ({1} \X {AnswerB} \X {Some(4), Some(6)})

InitAnswer ==
    /\ now = 0
    /\ sessions = SessionPerMode
    /\ NothingStudied
    /\ sm2_review = NewReview(1, 1, 0)
    /\ sm2_before = sm2_review
    /\ sm2_quality = 0
    /\ sm2_outcome = NotCalled
    /\ NothingCalled

NextAnswer ==
    \E sid \in DOMAIN SessionPerMode, a \in AnswerInputs :
        SubmitAnswer(1, sid, a[1], a[2], a[3])

SpecAnswer == InitAnswer /\ [][NextAnswer]_vars

\* C6: record_answer creates or changes an SRSReview only when the session
\* mode is REVIEW and a quality is supplied; in every other case every
\* SRSReview row stays as it is and none is created.
C6_ReviewOnlyInReviewMode ==
    [][ srs_reviews' # srs_reviews =>
          /\ last'.op = "submit_answer"
          /\ last'.status_code = 200
          /\ Len(responses') = Len(responses) + 1
          /\ sessions[responses'[Len(responses')].session_id].mode = "review"
          /\ responses'[Len(responses')].quality # None ]_vars

\* a card graded in the review session, then answered with a quality in
\* another mode: one row, still as the review answer left it
C6_Witness ==
    /\ Len(responses) = 2
    /\ sessions[responses[1].session_id].mode = "review"
    /\ responses[1].quality = Some(4)
    /\ sessions[responses[2].session_id].mode = "practice"
    /\ responses[2].quality = Some(4)
    /\ responses[2].card_id = responses[1].card_id
    /\ Cardinality(srs_reviews) = 1
    /\ \A r \in srs_reviews : r.repetitions = 1 /\ r.card_id = responses[1].card_id

\* is_correct as the claim gives it for a stored response
ExpectedIsCorrect(response) ==
    LET mode == sessions[response.session_id].mode
        card == CardTable[response.card_id]
    IN IF \/ mode = "exam"
          \/ mode = "practice" /\ card.type \in {"multiple_choice", "short_answer", "cloze"}
       THEN Some(CheckAnswerCorrectness(card, response.user_answer).value)
       ELSE None

C11_BasicNeverGraded ==
    \A i \in DOMAIN responses :
        CardTable[responses[i].card_id].type = "basic" => responses[i].is_correct = None

\* --------------------------- specification of _check_answer_correctness
\* The evaluator called on its own, on cards of every type and content:
\* an empty, a lower-case and an upper-case canonical answer; no options, an
\* empty list, options that do not hold the canonical answer, options that
\* hold an empty string; no cloze_data, no blanks, one blank, two blanks (the
\* second with a list of acceptable answers), a blank without "answer" and
\* a blank whose answer is empty.
BlankB == [has_answer |-> TRUE, answer |-> JStr(<<"B">>)]
BlankAorP == [has_answer |-> TRUE, answer |-> JList(<<JStr(<<"a">>), JStr(<<"P", " ">>)>>)]
BlankNoAnswer == [has_answer |-> FALSE, answer |-> JStr(<<>>)]
BlankEmpty == [has_answer |-> TRUE, answer |-> JStr(<<>>)]

EvalCards ==
    [deck_id : {1},
     type : CardTypes,
     answer : {<<>>, <<"b">>, <<"B">>},
     options : {None, Some(<<>>), Some(<< <<"a">>, <<"P", " ">> >>), Some(<< <<>>, <<"a">> >>)},
     cloze_data : {None, Some(<<>>), Some(<<BlankB>>), Some(<<BlankB, BlankAorP>>),
                   Some(<<BlankNoAnswer>>), Some(<<BlankEmpty>>)}]

\* plain answers: null, "", " ", "b", "B", " b ", "a", "p"
PlainAnswers ==
    {None, Some(<<>>), Some(<<" ">>), Some(<<"b">>), Some(<<"B">>),
     Some(<<" ", "b", " ">>), Some(<<"a">>), Some(<<"p">>)}

\* answers that decode to arrays of strings:
\* [], [""], ["b"], [" B"], ["a"], ["b","a"], ["b", "P"], ["b","b"], ["a","b"]
ArrayAnswers ==
    {Some(<<"[", "]">>),
     Some(<<"[", Quote, Quote, "]">>),
     Some(<<"[", Quote, "b", Quote, "]">>),
     Some(<<"[", Quote, " ", "B", Quote, "]">>),
     Some(<<"[", Quote, "a", Quote, "]">>),
     Some(<<"[", Quote, "b", Quote, ",", Quote, "a", Quote, "]">>),
     Some(<<"[", Quote, "b", Quote, ",", " ", Quote, "P", Quote, "]">>),
     Some(<<"[", Quote, "b", Quote, ",", Quote, "b", Quote, "]">>),
     Some(<<"[", Quote, "a", Quote, ",", Quote, "b", Quote, "]">>)}

\* malformed answers: [1], [0], "b" (a JSON string), 1, an unclosed array,
\* ["b",1], ["a",1]
MalformedAnswers ==
    {Some(<<"[", "1", "]">>),
     Some(<<"[", "0", "]">>),
     Some(<<Quote, "b", Quote>>),
     Some(<<"1">>),
     Some(<<"[", Quote, "b", Quote>>),
     Some(<<"[", Quote, "b", Quote, ",", "1", "]">>),
     Some(<<"[", Quote, "a", Quote, ",", "1", "]">>)}

EvalAnswers == PlainAnswers \cup ArrayAnswers \cup MalformedAnswers

\* a card and an answer, not yet evaluated
InitEval ==
    /\ now = 0
    /\ EmptyDatabase
    /\ sm2_review = NewReview(1, 1, 0)
    /\ sm2_before = sm2_review
    /\ sm2_quality = 0
    /\ sm2_outcome = NotCalled
    /\ eval_card \in EvalCards
    /\ eval_answer \in EvalAnswers
    /\ eval_outcome = NotEvaluated
    /\ streak_stats = NoStats
    /\ due_list = None
    /\ NothingFlagged
    /\ txns = <<>>

CallCheckAnswerCorrectness ==
    LET r == CheckAnswerCorrectness(eval_card, eval_answer)
    IN /\ ~eval_outcome.called
       /\ eval_outcome' = [called |-> TRUE, raised |-> r.raised, value |-> r.value]
       /\ UNCHANGED <<now, db, last, sm2, eval_card, eval_answer, streak_stats, due_list, flags, txns>>

NextEval == CallCheckAnswerCorrectness

SpecEval == InitEval /\ [][NextEval]_vars

\* the last call of the evaluator returned this boolean
EvalReturned(b) == eval_outcome = [called |-> TRUE, raised |-> FALSE, value |-> b]

\* the answer handed to the evaluator is None or ""
EmptyInput == eval_answer \in {None, Some(<<>>)}

\* C12: the evaluator returns false for a null and for an empty answer, for
\* every card type and every card content, a card whose canonical answer is
\* empty included.
C12_EmptyAnswerIsFalse ==
    (eval_outcome.called /\ EmptyInput) => EvalReturned(FALSE)

\* an empty answer to a multiple-choice card whose canonical answer is empty
C12_Witness ==
    /\ eval_outcome.called
    /\ eval_answer = Some(<<>>)
    /\ eval_card.type = "multiple_choice"
    /\ eval_card.answer = <<>>
    /\ EvalReturned(FALSE)

\* C13 as stated: for a MULTIPLE_CHOICE card the evaluator returns true iff
\* the raw user answer is exactly equal to card.answer.
C13_ChoiceIffEqual ==
    (eval_outcome.called /\ eval_card.type = "multiple_choice") =>
        EvalReturned(eval_answer = Some(eval_card.answer))

\* C13, amended: for a MULTIPLE_CHOICE card the evaluator returns true iff
\* the raw user answer is not empty and is exactly equal to card.answer, with
\* no trimming and no case folding, whatever card.options holds.
C13_ChoiceIffEqualAndNonEmpty ==
    (eval_outcome.called /\ eval_card.type = "multiple_choice") =>
        EvalReturned(~EmptyInput /\ eval_answer = Some(eval_card.answer))

\* "B" answered where "b" is the canonical answer, and "b" is not an option
C13_Witness ==
    /\ eval_card.type = "multiple_choice"
    /\ eval_card.answer = <<"b">>
    /\ eval_card.options = Some(<< <<"a">>, <<"P", " ">> >>)
    /\ eval_answer = Some(<<"B">>)
    /\ EvalReturned(FALSE)

\* the answers a SHORT_ANSWER card accepts, by the claim: the options when
\* there are any, else card.answer, compared in normalized form
ShortAnswerMatches ==
    IF eval_card.options \notin {None, Some(<<>>)}
    THEN \E options \in eval_card.options : \E k \in DOMAIN options :
            NormalizeAnswer(eval_answer) = NormalizeAnswer(Some(options[k]))
    ELSE NormalizeAnswer(eval_answer) = NormalizeAnswer(Some(eval_card.answer))

\* C14 as stated: for a SHORT_ANSWER card the evaluator returns true iff the
\* normalized user answer equals a normalized option (non-empty options) or
\* the normalized card.answer (empty or null options).
C14_ShortAnswerIffNormalized ==
    (eval_outcome.called /\ eval_card.type = "short_answer") =>
        EvalReturned(ShortAnswerMatches)

\* C14, amended: the same for a user answer that is not empty; an empty or
\* null user answer is false even where an option or card.answer
\* normalizes to the empty string.
C14_ShortAnswerIffNormalizedAndNonEmpty ==
    (eval_outcome.called /\ eval_card.type = "short_answer") =>
        EvalReturned(~EmptyInput /\ ShortAnswerMatches)

\* card.answer itself answered where the options do not hold it
C14_Witness ==
    /\ eval_card.type = "short_answer"
    /\ eval_card.answer = <<"b">>
    /\ eval_card.options = Some(<< <<"a">>, <<"P", " ">> >>)
    /\ eval_answer = Some(<<"b">>)
    /\ EvalReturned(FALSE)

\* the submitted text decodes to a JSON array
SubmittedArray ==
    /\ eval_answer # None
    /\ \E text \in eval_answer :
          JsonLoads(text).ok /\ JsonLoads(text).val.kind = "list"

\* the entries of the submitted array
Submitted == JsonLoads(CHOOSE text \in eval_answer : TRUE).val.items

\* every entry of the submitted array is a string
SubmittedStrings ==
    SubmittedArray /\ \A i \in DOMAIN Submitted : Submitted[i].kind = "str"

\* the submitted array has as many entries as the card has blanks and every
\* entry, normalized, is among the normalized acceptable answers of its blank
AllBlanksMatch ==
    /\ SubmittedArray
    /\ eval_card.cloze_data # None
    /\ \E blanks \in eval_card.cloze_data :
          /\ Len(Submitted) = Len(blanks)
          /\ \A i \in DOMAIN blanks :
                /\ blanks[i].has_answer
                /\ ~NormalizeJson(Submitted[i]).raised
                /\ NormalizeJson(Submitted[i]).text \in AcceptableAnswers(blanks[i])

\* C15: for a CLOZE card the evaluator returns true iff the submitted array
\* has exactly as many entries as cloze_data.blanks and every entry matches
\* its blank in normalized form; an array of strings with too few or too
\* many entries, or with one blank wrong, is false.
C15_ClozeAllBlanks ==
    (eval_outcome.called /\ eval_card.type = "cloze") =>
        /\ EvalReturned(TRUE) <=> AllBlanksMatch
        /\ SubmittedStrings => ~eval_outcome.raised

\* two blanks, the second with a list of acceptable answers, both matched
\* after normalization
C15_Witness ==
    /\ eval_card.type = "cloze"
    /\ eval_card.cloze_data = Some(<<BlankB, BlankAorP>>)
    /\ eval_answer = Some(<<"[", Quote, "b", Quote, ",", " ", Quote, "P", Quote, "]">>)
    /\ EvalReturned(TRUE)

\* C16: for a CLOZE card every answer that is not a JSON array of strings,
\* an empty array, and every card without cloze_data evaluate to false; the
\* evaluator never raises.
C16_MalformedClozeIsFalse ==
    (/\ eval_outcome.called
     /\ eval_card.type = "cloze"
     /\ \/ eval_card.cloze_data = None
        \/ ~SubmittedStrings
        \/ Submitted = <<>>) => EvalReturned(FALSE)

\* ------------------------------------ specification of the streak service
\* update_user_streak and get_streak_stats called on their own on user 1,
\* whose streak fields start anywhere: any streak up to MaxStreak, any
\* longest streak not below it, no last activity or one on any day of the
\* calendar, days after today included.
MaxDay == Today(MaxNow)

StreakFields ==
    {f \in [current_streak : 0 .. MaxStreak,
            longest_streak : 0 .. MaxStreak,
            last_activity_date : {None} \cup {Some(d) : d \in 0 .. MaxDay}] :
        f.longest_streak >= f.current_streak}

InitStreak ==
    /\ now = 0
    /\ sessions = <<>>
    /\ responses = <<>>
    /\ srs_reviews = {}
    /\ progress = {}
    /\ \E f \in StreakFields :
          users = [u \in Users |-> IF u = 1 THEN f
                                   ELSE [current_streak |-> 0, longest_streak |-> 0,
                                         last_activity_date |-> None]]
    /\ last = NoCall
    /\ sm2_review = NewReview(1, 1, 0)
    /\ sm2_before = sm2_review
    /\ sm2_quality = 0
    /\ sm2_outcome = NotCalled
    /\ NothingCalled

\* update_user_streak(db, user), committed
CallUpdateUserStreak(user) ==
    LET updated == UpdateUserStreak(users[user], Today(now))
    IN /\ updated.current_streak <= MaxStreak + 1
       /\ users' = [users EXCEPT ![user] = updated]
       /\ last' = Reply("update_user_streak", 0, "", "none", "none")
       /\ UNCHANGED <<now, sessions, responses, srs_reviews, progress, sm2,
                      evaluation, streak_stats, due_list, flags, txns>>

\* get_streak_stats(user)
CallGetStreakStats(user) ==
    LET stats == GetStreakStats(users[user], Today(now))
    IN /\ streak_stats' = [called |-> TRUE, user |-> user,
                           current_streak |-> stats.current_streak,
                           longest_streak |-> stats.longest_streak,
                           last_activity_date |-> stats.last_activity_date,
                           is_active |-> stats.is_active]
       /\ last' = Reply("get_streak_stats", 0, "", "none", "none")
       /\ UNCHANGED <<now, db, sm2, evaluation, due_list, flags, txns>>

NextStreak ==
    \/ CallUpdateUserStreak(1)
    \/ CallGetStreakStats(1)
    \/ Tick

SpecStreak == InitStreak /\ [][NextStreak]_vars

\* what the claim says one update makes of the streak fields
StreakStep(before, after, today) ==
    IF before.last_activity_date = Some(today) THEN after = before
    ELSE /\ after.current_streak = IF before.last_activity_date = Some(today - 1)
                                   THEN before.current_streak + 1
                                   ELSE 1
         /\ after.longest_streak = Max(before.longest_streak, after.current_streak)
         /\ after.last_activity_date = Some(today)

\* (a step that leaves the clock alone and has update_user_streak as the
\* last call is a call of it)
\* C17: update_user_streak changes nothing when last_activity_date is today,
\* adds 1 to current_streak when it is the day before, and sets
\* current_streak to 1 in every other case; then longest_streak is the
\* larger of itself and current_streak, and last_activity_date is today.
C17_StreakStateMachine ==
    [][ (last'.op = "update_user_streak" /\ now' = now) =>
          \E u \in Users :
              /\ StreakStep(users[u], users'[u], Today(now))
              /\ \A v \in Users \ {u} : users'[v] = users[v] ]_vars

\* a streak of 3 reset to 1 after a gap of two days or more, the longest
\* streak kept
C17_Witness ==
    /\ last.op = "update_user_streak"
    /\ now = MaxNow
    /\ users[1].current_streak = 1
    /\ users[1].longest_streak = 3
    /\ users[1].last_activity_date = Some(Today(now))

\* C20: get_streak_stats changes no stored field; it reports is_active as
\* last_activity_date not null and not before yesterday, current_streak as
\* stored when active and 0 when not, and longest_streak and
\* last_activity_date as stored.
C20_StreakStatsProjection ==
    [][ (last'.op = "get_streak_stats" /\ now' = now) =>
          /\ UNCHANGED db
          /\ \E u \in Users :
                LET is_active == /\ users[u].last_activity_date # None
                                 /\ \A d \in users[u].last_activity_date : d >= Today(now) - 1
                IN streak_stats' =
                      [called |-> TRUE, user |-> u,
                       current_streak |-> IF is_active THEN users[u].current_streak ELSE 0,
                       longest_streak |-> users[u].longest_streak,
                       last_activity_date |-> users[u].last_activity_date,
                       is_active |-> is_active] ]_vars

\* the stats of a user whose streak of 2 ended the day before yesterday:
\* reported 0, stored 2
C20_Witness ==
    /\ last.op = "get_streak_stats"
    /\ streak_stats.called
    /\ ~streak_stats.is_active
    /\ streak_stats.current_streak = 0
    /\ users[streak_stats.user].current_streak = 2
    /\ users[streak_stats.user].last_activity_date = Some(Today(now) - 2)

\* Session completions over several days: user 1 has a session in review
\* mode and one in exam mode on deck 1, finishes them (again and again:
\* finish_session does not look at the status) and the clock runs.
SessionsToFinish == << NewSession(1, 1, "review"), NewSession(1, 1, "exam") >>

InitDays ==
    /\ now = 0
    /\ sessions = SessionsToFinish
    /\ NothingStudied
    /\ sm2_review = NewReview(1, 1, 0)
    /\ sm2_before = sm2_review
    /\ sm2_quality = 0
    /\ sm2_outcome = NotCalled
    /\ NothingCalled

NextDays ==
    \/ \E sid \in DOMAIN SessionsToFinish : FinishSession(1, sid)
    \/ Tick

SpecDays == InitDays /\ [][NextDays]_vars

\* C18: from a new user (0, 0, null), after any completions on any days,
\* longest_streak never decreases and is never below current_streak: every
\* step keeps the first and ends in a state with the second.
C18_LongestStreakIsMaximum ==
    [][ \A u \in Users :
            /\ users'[u].longest_streak >= users[u].longest_streak
            /\ users'[u].longest_streak >= users'[u].current_streak ]_vars

\* a streak of 2, then a missed day, then a completion: current 1, longest 2
C18_Witness ==
    /\ last.op = "finish_session"
    /\ users[1].current_streak = 1
    /\ users[1].longest_streak = 2
    /\ users[1].last_activity_date = Some(Today(now))

\* C19: once a session was completed today, further completions on the
\* same day, in any mode, leave current_streak, longest_streak and
\* last_activity_date as they are.
C19_SameDayIdempotent ==
    [][ \A u \in Users :
            users[u].last_activity_date = Some(Today(now)) => users'[u] = users[u] ]_vars

\* both sessions completed on the second day of a streak of 2
C19_Witness ==
    /\ last.op = "finish_session"
    /\ \A sid \in DOMAIN sessions :
          /\ sessions[sid].status = "completed"
          /\ \A t \in sessions[sid].ended_at : Today(t) = Today(now)
    /\ sessions[1].ended_at # sessions[2].ended_at
    /\ users[1].current_streak = 2
    /\ users[1].last_activity_date = Some(Today(now))

\* C21: a session triggers one streak update over its lifetime, the one of
\* the finish that moves it from ACTIVE to COMPLETED: the streak fields
\* change only in a step in which a session makes that move.
C21_OneStreakUpdatePerSession ==
    [][ users' # users =>
          \E sid \in DOMAIN sessions :
              /\ sessions[sid].status = "active"
              /\ sessions'[sid].status = "completed" ]_vars

\* ------------------------------------------ specification of the tables
\* Answers by two users who study the same deck: both have a review session
\* on deck 1, user 1 also a practice and an exam session on deck 2, whose
\* single card is card 5.  Answers come without a quality, with a valid and
\* with an invalid one.
SessionsStudied ==
    << NewSession(1, 1, "review"), NewSession(2, 1, "review"),
       NewSession(1, 2, "practice"), NewSession(1, 2, "exam") >>

StudiedCards == {1, 5}
StudiedQualities == {None, Some(4), Some(6)}

InitStudied ==
    /\ now = 0
    /\ sessions = SessionsStudied
    /\ NothingStudied
    /\ sm2_review = NewReview(1, 1, 0)
    /\ sm2_before = sm2_review
    /\ sm2_quality = 0
    /\ sm2_outcome = NotCalled
    /\ NothingCalled

NextStudied ==
    \E u \in Users, sid \in DOMAIN SessionsStudied, cid \in StudiedCards,
       quality \in StudiedQualities :
        SubmitAnswer(u, sid, cid, AnswerB, quality)

SpecStudied == InitStudied /\ [][NextStudied]_vars

\* C22: once a user has answered in a deck of n >= 1 cards, the user's
\* percent_complete for the deck is min(100, 100 * k / n), k the number of
\* the user's QuizResponse rows for the deck over all sessions, repeated
\* answers to one card counted each; it lies within [0, 100].
C22_PercentComplete ==
    \A u \in Users, d \in DeckIds :
        LET k == Len(ResponsesOf(u, d))
            n == Cardinality({c \in CardIds : CardTable[c].deck_id = d})
            rows == {p \in progress : p.user_id = u /\ p.deck_id = d}
        IN (k >= 1 /\ n >= 1) =>
              /\ Cardinality(rows) = 1
              /\ \A p \in rows :
                    /\ p.percent_complete.den > 0
                    /\ p.percent_complete.num * n
                           = p.percent_complete.den * (IF 100 * k <= 100 * n THEN 100 * k ELSE 100 * n)
                    /\ p.percent_complete.num >= 0
                    /\ p.percent_complete.num <= 100 * p.percent_complete.den

\* the one card of deck 2 answered twice by user 1, in two sessions: 100
C22_Witness ==
    /\ last.op = "submit_answer"
    /\ last.status_code = 200
    /\ Len(ResponsesOf(1, 2)) = 2
    /\ responses[1].session_id # responses[2].session_id
    /\ \E p \in progress :
          /\ p.user_id = 1
          /\ p.deck_id = 2
          /\ p.percent_complete = [num |-> 100, den |-> 1]

\* the REVIEW-mode answers with a valid quality of a user for a card
GradedAnswers(u, cid) ==
    {i \in DOMAIN responses :
        /\ sessions[responses[i].session_id].user_id = u
        /\ sessions[responses[i].session_id].mode = "review"
        /\ responses[i].card_id = cid
        /\ \E q \in 0 .. 5 : responses[i].quality = Some(q)}

OneReviewPerPair ==
    \A u \in Users, cid \in CardIds :
        LET rows == {r \in srs_reviews : r.user_id = u /\ r.card_id = cid}
        IN /\ Cardinality(rows) <= 1
           /\ rows # {} <=> GradedAnswers(u, cid) # {}

\* C25: with the calls of recordAnswer one after the other, there is at
\* most one SRSReview row per (user_id, card_id); the row of a pair exists
\* iff the user has recorded a REVIEW-mode answer with a valid quality for
\* the card, and a row once created stays.
C25_OneReviewPerPair ==
    [][ /\ OneReviewPerPair'
        /\ \A r \in srs_reviews :
              \E kept \in srs_reviews' :
                  /\ kept.id = r.id
                  /\ kept.user_id = r.user_id
                  /\ kept.card_id = r.card_id ]_vars

\* user 1 has graded card 1 twice in review mode: one row, rescheduled twice
C25_Witness ==
    /\ Len(responses) = 2
    /\ Cardinality(GradedAnswers(1, 1)) = 2
    /\ Cardinality(srs_reviews) = 1
    /\ \A r \in srs_reviews : r.repetitions = 2 /\ r.user_id = 1 /\ r.card_id = 1

\* ---------------------------------------- specification of two users
\* Both users create review sessions on deck 1, answer its cards in any
\* session, finish sessions, and read their due cards and their streak.
CardsShared == {1, 2}

\* every operation of the study core, called by one user
StepOf(u) ==
    \/ CreateStudySession(u, 1, "review")
    \/ \E sid \in SessionInputs, cid \in CardsShared : SubmitAnswer(u, sid, cid, AnswerB, Some(4))
    \/ \E sid \in SessionInputs : FinishSession(u, sid)
    \/ GetDueReviews(u)
    \/ CallGetStreakStats(u)

NextShared == \E u \in Users : StepOf(u)

SpecShared == Init /\ [][NextShared]_vars

\* what the tables hold of one user
BelongingTo(u, sess, resp, reviews, prog, usr) ==
    [sessions |-> {<<sid, sess[sid]>> : sid \in {i \in DOMAIN sess : sess[i].user_id = u}},
     responses |-> SelectSeq(resp, LAMBDA r : sess[r.session_id].user_id = u),
     srs_reviews |-> {r \in reviews : r.user_id = u},
     progress |-> {p \in prog : p.user_id = u},
     streak |-> usr[u]]

\* C26: no operation of a user (createSession, recordAnswer, finishSession,
\* dueReviews, getStreakStats) changes a QuizSession, QuizResponse,
\* SRSReview, UserDeckProgress or streak field of another user, also when
\* both study the same deck and the same cards.
C26_NoCrossUserChange ==
    [][ \A a \in Users : StepOf(a) =>
          \A b \in Users \ {a} :
              BelongingTo(b, sessions', responses', srs_reviews', progress', users')
                  = BelongingTo(b, sessions, responses, srs_reviews, progress, users) ]_vars

\* both users have graded card 1, each in a session of their own: two rows
\* for the card, each rescheduled once, and two progress rows for the deck
C26_Witness ==
    /\ last.op = "submit_answer"
    /\ last.status_code = 200
    /\ Len(sessions) = 2
    /\ sessions[1].user_id # sessions[2].user_id
    /\ \E r1, r2 \in srs_reviews :
          /\ r1.user_id = 1
          /\ r2.user_id = 2
          /\ r1.card_id = 1
          /\ r2.card_id = 1
          /\ r1.repetitions = 1
          /\ r2.repetitions = 1
    /\ Cardinality(progress) = 2

\* every answer with a grade has its schedule, every answered deck its
\* progress
ResponsesComplete ==
    /\ \A u \in Users, cid \in CardIds :
          GradedAnswers(u, cid) # {} =>
              LET latest == CHOOSE i \in GradedAnswers(u, cid) :
                                \A j \in GradedAnswers(u, cid) : j <= i
              IN \E r \in srs_reviews :
                    /\ r.user_id = u
                    /\ r.card_id = cid
                    /\ r.last_quality = responses[latest].quality
                    /\ (r.repetitions >= 1) <=> (\E q \in 3 .. 5 : responses[latest].quality = Some(q))
    /\ \A u \in Users, d \in DeckIds :
          Len(ResponsesOf(u, d)) >= 1 =>
              \E p \in progress :
                  /\ p.user_id = u
                  /\ p.deck_id = d
                  /\ p.percent_complete.num * TotalCards(d)
                        = p.percent_complete.den
                            * Min(100 * TotalCards(d), 100 * Len(ResponsesOf(u, d)))

\* C27: recordAnswer is all or nothing.  A call that succeeds commits the
\* QuizResponse together with the SRSReview update and the progress, so
\* that no committed state has a REVIEW-mode response with a quality
\* without its schedule and progress; a call that fails, as with a quality
\* outside 0..5, commits no QuizResponse, SRSReview or progress change.
C27_AllOrNothing ==
    [][ /\ ResponsesComplete'
        /\ last'.op = "submit_answer" =>
              IF last'.status_code = 200
              THEN /\ responses' = Append(responses, Appended)
                   /\ \E p \in progress' :
                         /\ p.user_id = sessions[Appended.session_id].user_id
                         /\ p.deck_id = sessions[Appended.session_id].deck_id
                         /\ p.last_studied_at = Some(now)
              ELSE UNCHANGED db ]_vars

\* user 1 has graded card 1 and then sent the quality 6 for it: the call
\* failed with 400 and the tables are as the first answer left them
C27_Witness ==
    /\ last.op = "submit_answer"
    /\ last.status_code = 400
    /\ Len(responses) = 1
    /\ responses[1].quality = Some(4)
    /\ Cardinality(srs_reviews) = 1
    /\ \A r \in srs_reviews : r.repetitions = 1 /\ r.last_quality = Some(4)
    /\ Cardinality(progress) = 1

\* ------------------------------------- specification of the due reviews
\* Both users review deck 1 while time passes, and ask for their due cards.
SessionsReviewed == << NewSession(1, 1, "review"), NewSession(2, 1, "review") >>

CardsReviewed == {1, 2}
QualitiesReviewed == {Some(1), Some(4)}

InitDue ==
    /\ now = 0
    /\ sessions = SessionsReviewed
    /\ NothingStudied
    /\ sm2_review = NewReview(1, 1, 0)
    /\ sm2_before = sm2_review
    /\ sm2_quality = 0
    /\ sm2_outcome = NotCalled
    /\ NothingCalled

NextDue ==
    \/ \E u \in Users, cid \in CardsReviewed, quality \in QualitiesReviewed :
          SubmitAnswer(u, u, cid, AnswerB, quality)
    \/ \E u \in Users : GetDueReviews(u)
    \/ Tick

SpecDue == InitDue /\ [][NextDue]_vars

\* a step in which GET /study/reviews/due has answered
DueReviewsReturned == last'.op = "due_reviews" /\ now' = now

\* one entry of the answer is the row it was built from
EntryOfRow(entry, row) ==
    /\ entry.card_id = row.card_id
    /\ entry.due_at = row.due_at
    /\ entry.repetitions = row.repetitions
    /\ entry.interval_days = row.interval_days
    /\ entry.easiness = row.easiness

\* C23: dueReviews(user) returns exactly the user's SRSReview rows with
\* due_at <= now, none of another user's and none due in the future, in
\* ascending order of due_at.
C23_DueReviewsExact ==
    [][ DueReviewsReturned =>
          \E answer \in due_list' :
              LET items == answer.items
                  due == {r \in srs_reviews : r.user_id = answer.user /\ r.due_at <= now}
              IN /\ Len(items) = Cardinality(due)
                 /\ \A r \in due : \E i \in DOMAIN items : EntryOfRow(items[i], r)
                 /\ \A i \in DOMAIN items : \E r \in due : EntryOfRow(items[i], r)
                 /\ \A i, j \in DOMAIN items : i < j => items[i].due_at <= items[j].due_at ]_vars

\* user 1 is given the one card of its own that is due; the answer leaves
\* out the card of user 2, which is due as well
C23_Witness ==
    /\ last.op = "due_reviews"
    /\ \E answer \in due_list :
          /\ answer.user = 1
          /\ Len(answer.items) = 1
          /\ answer.items[1].card_id = 1
          /\ answer.items[1].due_at <= now
    /\ \E r \in srs_reviews : r.user_id = 2 /\ r.due_at <= now

\* a step in which an answer was graded: in this specification every answer
\* is in review mode and carries a valid quality
Graded == last'.op = "submit_answer" /\ last'.status_code = 200 /\ responses' # responses

\* the rows of the pair the step has graded
GradedRows(tbl) ==
    {r \in tbl : /\ r.user_id = sessions[Appended.session_id].user_id
                 /\ r.card_id = Appended.card_id}

\* C29: a card graded at time t with resulting interval_days = d gets
\* due_at = t + d days, d >= 1, so it is never due right after the grading;
\* until it is graded again its row stays, and dueReviews leaves it out at
\* every time before t + d days and holds it at every time from then on.
C29_DueAfterInterval ==
    [][ /\ Graded =>
              /\ GradedRows(srs_reviews') # {}
              /\ \A r \in GradedRows(srs_reviews') :
                    /\ r.interval_days >= 1
                    /\ r.due_at = now + r.interval_days * TicksPerDay
                    /\ r.due_at > now
              /\ srs_reviews \ GradedRows(srs_reviews) \subseteq srs_reviews'
        /\ ~Graded => srs_reviews' = srs_reviews
        /\ DueReviewsReturned =>
              \A answer \in due_list' :
                  \A r \in srs_reviews :
                      r.user_id = answer.user =>
                          ((\E i \in DOMAIN answer.items :
                                /\ answer.items[i].card_id = r.card_id
                                /\ answer.items[i].due_at = r.due_at)
                             <=> now >= r.due_at) ]_vars

\* user 1 graded card 1 on day 0 and card 2 half a day later, both for an
\* interval of one day; asked a day after the first grading, dueReviews
\* holds card 1 and not yet card 2
C29_Witness ==
    /\ last.op = "due_reviews"
    /\ \E r1, r2 \in srs_reviews :
          /\ r1.user_id = 1
          /\ r2.user_id = 1
          /\ r1.card_id = 1
          /\ r2.card_id = 2
          /\ r1.due_at = now
          /\ r2.due_at > now
    /\ \E answer \in due_list :
          /\ answer.user = 1
          /\ Len(answer.items) = 1
          /\ answer.items[1].card_id = 1

\* ------------------------------------ specification of the flagged cards
\* Two users flag and unflag a card of deck 1, a card of deck 2 and a card
\* that does not exist, naming either deck, while time passes.
FlagCards == {1, 5, 6}
FlagDecks == {1, 2}

NextFlags ==
    \/ \E u \in Users, cid \in FlagCards, d \in FlagDecks : FlagCard(u, cid, d)
    \/ \E u \in Users, cid \in FlagCards : UnflagCard(u, cid)
    \/ Tick

SpecFlags == Init /\ [][NextFlags]_vars

WriterCards == {1, 2}

InitConcurrent ==
    /\ now = 0
    /\ sessions = << NewSession(WriterUser, 1, "review") >>
    /\ NothingStudied
    /\ sm2_review = NewReview(1, 1, 0)
    /\ sm2_before = sm2_review
    /\ sm2_quality = 0
    /\ sm2_outcome = NotCalled
    /\ eval_card = CardTable[1]
    /\ eval_answer = None
    /\ eval_outcome = NotEvaluated
    /\ streak_stats = NoStats
    /\ due_list = None
    /\ NothingFlagged
    /\ txns = [w \in Writers |-> Idle]

NextConcurrent ==
    \E w \in Writers :
        \/ \E cid \in WriterCards : BeginRecordAnswer(w, cid)
        \/ SelectReview(w)
        \/ WriteReview(w)
        \/ SelectProgress(w)
        \/ WriteProgress(w)
        \/ CommitRecordAnswer(w)

SpecConcurrent == InitConcurrent /\ [][NextConcurrent]_vars

\* C28: however two recordAnswer calls of one user interleave, for one card
\* or for two cards of one deck and with no row there yet, the committed
\* tables never hold two SRSReview rows of a (user, card) nor two
\* UserDeckProgress rows of a (user, deck).
C28_OneRowPerKey ==
    /\ \A u \in Users, cid \in CardIds :
          Cardinality({r \in srs_reviews : r.user_id = u /\ r.card_id = cid}) <= 1
    /\ \A u \in Users, d \in DeckIds :
          Cardinality({r \in progress : r.user_id = u /\ r.deck_id = d}) <= 1

\* both requests were for card 1 and both found no row; one has committed
\* its rows and the other has failed on the constraint
C28_Witness ==
    /\ \E w, o \in Writers :
          /\ txns[w].pc = "committed"
          /\ txns[o].pc = "failed"
          /\ txns[w].card_id = 1
          /\ txns[o].card_id = 1
          /\ txns[w].review_found = {}
          /\ txns[o].review_found = {}
    /\ Cardinality(srs_reviews) = 1
    /\ Cardinality(progress) = 1
    /\ Len(responses) = 1

\* ------------------------------------------- specification of _apply_sm2
Qualities == -1 .. 6

Sm2Bounded(r) ==
    /\ r.repetitions <= MaxReps + 1
    /\ r.interval_days <= MaxDueInterval
    /\ r.easiness <= MaxEasiness

InitSm2 ==
    /\ now = 0
    /\ sm2_review \in [repetitions : 0 .. MaxReps,
                       interval_days : 0 .. MaxInterval,
                       easiness : MinEasiness .. MaxEasiness,
                       last_quality : {None},
                       due_at : {0}]
    /\ sm2_before = sm2_review
    /\ sm2_quality = 0
    /\ sm2_outcome = NotCalled
    /\ NothingCalled
    /\ EmptyDatabase

CallApplySm2 ==
    \E quality \in Qualities :
        LET res == ApplySm2(sm2_review, quality, now)
        IN /\ Sm2Bounded(res.review)
           /\ sm2_before' = sm2_review
           /\ sm2_quality' = quality
           /\ sm2_review' = res.review
           /\ sm2_outcome' = [called |-> TRUE, raised |-> res.raised,
                               status_code |-> res.status_code]
           /\ UNCHANGED <<now, db, last, evaluation, streak_stats, due_list, flags, txns>>

NextSm2 == CallApplySm2

SpecSm2 == InitSm2 /\ [][NextSm2]_vars

\* the last call of _apply_sm2 returned normally
Sm2Returned == sm2_outcome.called /\ ~sm2_outcome.raised

\* the change of easiness for each quality, in hundredths:
\* 0.1 - (5 - q) * (0.08 + (5 - q) * 0.02) is -0.80, -0.54, -0.32, -0.14, 0, +0.10
EasinessChange == <<-80, -54, -32, -14, 0, 10>>

\* C1: starting from easiness >= 1.3, after any sequence of _apply_sm2
\* calls easiness is >= 1.3, and each call that returns sets it to
\* max(1.3, easiness + 0.1 - (5 - q) * (0.08 + (5 - q) * 0.02)).
C1_EasinessFloor ==
    /\ sm2_review.easiness >= 130
    /\ Sm2Returned =>
         sm2_review.easiness =
            Max(130, sm2_before.easiness + EasinessChange[sm2_quality + 1])

\* a call whose adjustment would have gone below 1.3 and was clamped
C1_Witness ==
    /\ Sm2Returned
    /\ sm2_before.easiness + EasinessChange[sm2_quality + 1] < 130
    /\ sm2_review.easiness = 130

\* C2: for every review state and every quality in {0, 1, 2}, _apply_sm2
\* leaves repetitions = 0 and interval_days = 1.
C2_LapseResets ==
    (Sm2Returned /\ sm2_quality \in {0, 1, 2}) =>
        (sm2_review.repetitions = 0 /\ sm2_review.interval_days = 1)

\* a lapse on a review that had repetitions and a long interval
C2_Witness ==
    /\ Sm2Returned
    /\ sm2_quality \in {0, 1, 2}
    /\ sm2_before.repetitions >= 2
    /\ sm2_before.interval_days > 1
    /\ sm2_review.repetitions = 0
    /\ sm2_review.interval_days = 1

\* n is x hundredths rounded to the nearest integer, ties to the even one
IsRounded(n, x) ==
    /\ 100 * n - 50 <= x
    /\ x <= 100 * n + 50
    /\ (x = 100 * n - 50 \/ x = 100 * n + 50) => n % 2 = 0

\* C3: with repetitions >= 2 and quality in {3, 4, 5}, interval_days becomes
\* max(1, round(interval_days * easiness)) with the easiness the call
\* started with, and repetitions grows by exactly 1; interval 6, easiness
\* 2.5, quality 5 gives interval 15 and repetitions 3.
C3_IntervalGrowth ==
    (Sm2Returned /\ sm2_quality \in {3, 4, 5} /\ sm2_before.repetitions >= 2) =>
        /\ sm2_review.repetitions = sm2_before.repetitions + 1
        /\ \E n \in 0 .. sm2_review.interval_days :
              /\ IsRounded(n, sm2_before.interval_days * sm2_before.easiness)
              /\ sm2_review.interval_days = Max(1, n)
        /\ (sm2_before.repetitions = 2 /\ sm2_before.interval_days = 6
              /\ sm2_before.easiness = 250 /\ sm2_quality = 5) =>
                 (sm2_review.interval_days = 15 /\ sm2_review.repetitions = 3)

\* the example of the claim, with an easiness that the call changed
C3_Witness ==
    /\ Sm2Returned
    /\ sm2_quality = 5
    /\ sm2_before.repetitions = 2
    /\ sm2_before.interval_days = 6
    /\ sm2_before.easiness = 250
    /\ sm2_review.easiness = 260
    /\ sm2_review.interval_days = 15

\* C4: for quality in {3, 4, 5}, repetitions 0 gives repetitions 1 and
\* interval 1, repetitions 1 gives repetitions 2 and interval 6, whatever
\* the interval and easiness were.
C4_FirstTwoSteps ==
    (Sm2Returned /\ sm2_quality \in {3, 4, 5}) =>
        /\ sm2_before.repetitions = 0 =>
              (sm2_review.repetitions = 1 /\ sm2_review.interval_days = 1)
        /\ sm2_before.repetitions = 1 =>
              (sm2_review.repetitions = 2 /\ sm2_review.interval_days = 6)

\* the second successful recall, from an interval and an easiness for which
\* round(interval * easiness) is not 6
C4_Witness ==
    /\ Sm2Returned
    /\ sm2_quality \in {3, 4, 5}
    /\ sm2_before.repetitions = 1
    /\ sm2_before.interval_days = 1
    /\ sm2_before.easiness = 250
    /\ sm2_review.interval_days = 6

\* C5: _apply_sm2 with a quality outside 0..5 raises the 400 error and
\* leaves every field of the review as it was.
C5_InvalidQuality ==
    (sm2_outcome.called /\ sm2_quality \notin 0 .. 5) =>
        /\ sm2_outcome.raised
        /\ sm2_outcome.status_code = 400
        /\ sm2_review = sm2_before

\* a rejected call on a review that an accepted call would have changed
C5_Witness ==
    /\ sm2_outcome.called
    /\ sm2_outcome.raised
    /\ sm2_quality \in {-1, 6}
    /\ sm2_before.repetitions = 2
    /\ sm2_before.interval_days = 6

====
